---------------------------- MODULE Spec2Model ----------------------------
(* A model of Jury.synthesize (src/src/case/jury.py): evidence formatting,  *)
(* jury selection, the deliberation loop with vote extraction, and the      *)
(* majority tally; and of AdvocateAgent (src/src/case/advocate.py): its     *)
(* construction and retrieve.  Python strings are TLA+ strings; a Python    *)
(* dict is a sequence of key-value records in insertion order; None is a    *)
(* tagged value where it is data and the string NoneVal where it is a vote  *)
(* or a missing path.                                                       *)
EXTENDS Integers, Sequences, FiniteSets, TLC

VARIABLES
    choices,         \* argument: the choices mapping, as its sequence of <<key, text>>
    evidence_list,   \* argument: the evidence items
    num_arbiters,    \* argument: requested jury size
    pc,              \* position inside synthesize
    evidence_text,   \* local: the formatted evidence block
    selected_names,  \* local: the sampled persona names
    idx,             \* local: number of loop iterations of "for name in selected_names" done
    votes,           \* local: the list of extracted votes
    logs,            \* local: the list of ballot records
    calls,           \* the reasoning collaborator's call log, one entry per invocation
    result           \* the returned mapping, NoResult before the return

juryVars == <<choices, evidence_list, num_arbiters, pc, evidence_text,
              selected_names, idx, votes, logs, calls, result>>

VARIABLES
    dspy,             \* module global: TRUE when "import dspy" succeeded, FALSE for None
    LuceneSearcher,   \* module global: TRUE when pyserini was imported, FALSE for None
    fs,               \* the file system: the set of paths that exist
    bm25_index_path,  \* argument of AdvocateAgent: a path or None
    faiss_index_dir,  \* argument of AdvocateAgent: a path or None
    agent_pc,         \* "new", "built" after __init__, "retrieved" after retrieve
    bm25_searcher,    \* self.bm25_searcher: TRUE for a searcher, FALSE for None
    rag_indexer,      \* self.rag_indexer: TRUE for an indexer, FALSE for None
    tools,            \* self.tools: the names of the registered tools
    react_agent,      \* self.react_agent: TRUE for a ReAct agent, FALSE for None
    events,           \* the index collaborators' call log during __init__
    retrieve_k,       \* argument k of retrieve
    prediction,       \* what the ReAct agent did when retrieve invoked it
    retrieved         \* the list retrieve returned

advocateVars == <<dspy, LuceneSearcher, fs, bm25_index_path, faiss_index_dir, agent_pc,
                  bm25_searcher, rag_indexer, tools, react_agent, events,
                  retrieve_k, prediction, retrieved>>

vars == <<juryVars, advocateVars>>

-----------------------------------------------------------------------------
(* Python string primitives *)

Char(s, i) == SubSeq(s, i, i)

\* c in s, for one character c
Contains(s, c) == \E i \in 1..Len(s) : Char(s, i) = c

LowerLetters == "abcdefghijklmnopqrstuvwxyz"
UpperLetters == "ABCDEFGHIJKLMNOPQRSTUVWXYZ"

\* str.isspace for the characters of the modelled alphabet
IsSpace(c) == c \in {" ", "\n", "\t", "\r"}

\* str.upper on one character (ASCII letters; every other character is kept)
UpperChar(c) ==
    IF \E i \in 1..Len(LowerLetters) : Char(LowerLetters, i) = c
    THEN Char(UpperLetters, CHOOSE i \in 1..Len(LowerLetters) : Char(LowerLetters, i) = c)
    ELSE c

RECURSIVE Upper(_)
Upper(s) == IF s = "" THEN "" ELSE UpperChar(Head(s)) \o Upper(Tail(s))

RECURSIVE LStrip(_)
LStrip(s) == IF s # "" /\ IsSpace(Head(s)) THEN LStrip(Tail(s)) ELSE s

RECURSIVE RStrip(_)
RStrip(s) ==
    IF s # "" /\ IsSpace(Char(s, Len(s))) THEN RStrip(SubSeq(s, 1, Len(s) - 1)) ELSE s

\* str.strip()
Strip(s) == RStrip(LStrip(s))

\* str(n) for a natural number n
Digits == "0123456789"
RECURSIVE IntToStr(_)
IntToStr(n) ==
    IF n < 10 THEN Char(Digits, n + 1)
    ELSE IntToStr(n \div 10) \o Char(Digits, (n % 10) + 1)

-----------------------------------------------------------------------------
(* The persona registry *)

LEGAL_PERSONAS ==
    << "The Strict Textualist", "The Devil's Advocate", "The Equity Advocate",
       "The Legal Realist", "The Precedent Loyalist" >>

Range(f) == { f[i] : i \in DOMAIN f }

Min(a, b) == IF a <= b THEN a ELSE b

\* mutant of Sample: drawing with replacement (random.choices)
Sample_WithReplacement(population, k) == [1..k -> Range(population)]

\* random.sample(population, k): every sequence of k pairwise distinct elements
Sample(population, k) ==
    { s \in [1..k -> Range(population)] :
        \A i, j \in 1..k : i # j => s[i] # s[j] }

-----------------------------------------------------------------------------
(* Vote extraction *)

NoneVal == "None"

ChoiceKeys(ch) == { ch[i][1] : i \in DOMAIN ch }

\* mutant of FirstValid: the first capital letter, valid key or not
RECURSIVE FirstValid_AnyLetter(_, _)
FirstValid_AnyLetter(raw_vote, ch) ==
    IF raw_vote = "" THEN NoneVal
    ELSE IF Contains(UpperLetters, Head(raw_vote)) THEN Head(raw_vote)
    ELSE FirstValid_AnyLetter(Tail(raw_vote), ch)

\* for char in raw_vote: if char in choices: clean_vote = char; break
RECURSIVE FirstValid(_, _)
FirstValid(raw_vote, ch) ==
    IF raw_vote = "" THEN NoneVal
    ELSE IF Head(raw_vote) \in ChoiceKeys(ch) THEN Head(raw_vote)
    ELSE FirstValid(Tail(raw_vote), ch)

\* raw_vote = pred.vote.strip().upper(), then the scan
CleanVote(vote, ch) == FirstValid(Upper(Strip(vote)), ch)

\* "if clean_vote:" -- None and the empty string are falsy
Truthy(v) == v # NoneVal /\ v # ""

-----------------------------------------------------------------------------
(* Python values.  A value is a record tagged by its type:                  *)
(*   [t |-> "str", s |-> text]      [t |-> "int", s |-> decimal text]       *)
(*   [t |-> "none"]                 [t |-> "bool", s |-> "True" or "False"] *)
(*   [t |-> "list", items |-> <<value, ...>>]                               *)
(*   [t |-> "dict", items |-> <<[k |-> key text, v |-> value], ...>>]       *)

PyStrVal(s) == [t |-> "str", s |-> s]
PyIntVal(s) == [t |-> "int", s |-> s]
PyNone      == [t |-> "none"]
PyBool(s)   == [t |-> "bool", s |-> s]
PyList(xs)  == [t |-> "list", items |-> xs]
PyDict(kvs) == [t |-> "dict", items |-> kvs]

\* repr of one character of a str inside the quotes q chosen by repr
ReprChar(c, q) ==
    IF c = "\\" THEN "\\\\"
    ELSE IF c = "\n" THEN "\\n"
    ELSE IF c = "\t" THEN "\\t"
    ELSE IF c = "\r" THEN "\\r"
    ELSE IF c = q THEN "\\" \o c
    ELSE c

RECURSIVE ReprChars(_, _)
ReprChars(s, q) == IF s = "" THEN "" ELSE ReprChar(Head(s), q) \o ReprChars(Tail(s), q)

\* repr(str): single quotes, unless the text has a single and no double quote
ReprStr(s) ==
    LET q == IF Contains(s, "'") /\ ~Contains(s, "\"") THEN "\"" ELSE "'"
    IN  q \o ReprChars(s, q) \o q

RECURSIVE PyRepr(_), ReprItems(_), ReprPairs(_)

\* repr(v)
PyRepr(v) ==
    CASE v.t = "str"  -> ReprStr(v.s)
      [] v.t = "int"  -> v.s
      [] v.t = "bool" -> v.s
      [] v.t = "none" -> "None"
      [] v.t = "list" -> "[" \o ReprItems(v.items) \o "]"
      [] v.t = "dict" -> "{" \o ReprPairs(v.items) \o "}"

ReprItems(xs) ==
    IF xs = <<>> THEN ""
    ELSE PyRepr(Head(xs)) \o (IF Len(xs) > 1 THEN ", " ELSE "") \o ReprItems(Tail(xs))

ReprPairs(kvs) ==
    IF kvs = <<>> THEN ""
    ELSE ReprStr(Head(kvs).k) \o ": " \o PyRepr(Head(kvs).v)
         \o (IF Len(kvs) > 1 THEN ", " ELSE "") \o ReprPairs(Tail(kvs))

\* str(v), which is also what an f-string field {v} inserts
PyStr(v) == IF v.t = "str" THEN v.s ELSE PyRepr(v)

\* key in d
DictHas(d, key) == \E i \in 1..Len(d.items) : d.items[i].k = key

\* d[key]; a repeated key of a decoded JSON object keeps its last value
DictLookup(d, key) ==
    LET last == CHOOSE i \in 1..Len(d.items) :
                   /\ d.items[i].k = key
                   /\ \A j \in (i + 1)..Len(d.items) : d.items[j].k # key
    IN  d.items[last].v

\* d.get(key, default)
DictGet(d, key, default) == IF DictHas(d, key) THEN DictLookup(d, key) ELSE default

-----------------------------------------------------------------------------
(* json.loads, for documents made of objects, arrays, strings with the     *)
(* escapes \" \\ \/ \n \t \r, integers, and the literals null, true and    *)
(* false.  A scan returns [ok |-> FALSE] (JSONDecodeError) or the decoded  *)
(* value with the position after it.                                       *)

JsonFail == [ok |-> FALSE]
JsonOk(v, n) == [ok |-> TRUE, val |-> v, next |-> n]

JsonWs == {" ", "\t", "\n", "\r"}

IsDigit(c) == c # "" /\ Contains(Digits, c)

At(s, i, c) == i <= Len(s) /\ Char(s, i) = c

StartsWith(s, i, lit) ==
    i + Len(lit) - 1 <= Len(s) /\ SubSeq(s, i, i + Len(lit) - 1) = lit

RECURSIVE SkipWs(_, _)
SkipWs(s, i) == IF i <= Len(s) /\ Char(s, i) \in JsonWs THEN SkipWs(s, i + 1) ELSE i

\* py_scanstring: i is the position after the opening quote
RECURSIVE ScanString(_, _, _)
ScanString(s, i, acc) ==
    IF i > Len(s) THEN JsonFail
    ELSE LET c == Char(s, i) IN
         IF c = "\"" THEN JsonOk(PyStrVal(acc), i + 1)
         ELSE IF c = "\\" THEN
              IF i + 1 > Len(s) THEN JsonFail
              ELSE LET e == Char(s, i + 1) IN
                   IF e \in {"\"", "\\", "/"} THEN ScanString(s, i + 2, acc \o e)
                   ELSE IF e = "n" THEN ScanString(s, i + 2, acc \o "\n")
                   ELSE IF e = "t" THEN ScanString(s, i + 2, acc \o "\t")
                   ELSE IF e = "r" THEN ScanString(s, i + 2, acc \o "\r")
                   ELSE JsonFail
         ELSE IF c \in {"\n", "\t", "\r"} THEN JsonFail   \* strict: no control character
         ELSE ScanString(s, i + 1, acc \o c)

RECURSIVE ScanDigits(_, _)
ScanDigits(s, i) == IF i <= Len(s) /\ IsDigit(Char(s, i)) THEN ScanDigits(s, i + 1) ELSE i

\* NUMBER_RE, integer part: -?(0|[1-9]\d*)
ScanNumber(s, i) ==
    LET j == IF At(s, i, "-") THEN i + 1 ELSE i
    IN  IF j > Len(s) \/ ~IsDigit(Char(s, j)) THEN JsonFail
        ELSE LET e   == IF Char(s, j) = "0" THEN j + 1 ELSE ScanDigits(s, j)
                 txt == SubSeq(s, i, e - 1)
             IN  JsonOk(PyIntVal(IF txt = "-0" THEN "0" ELSE txt), e)

RECURSIVE ScanOnce(_, _), ScanObject(_, _, _), ScanArray(_, _, _)

\* scan_once
ScanOnce(s, i) ==
    IF i > Len(s) THEN JsonFail
    ELSE LET c == Char(s, i) IN
         CASE c = "\"" -> ScanString(s, i + 1, "")
           [] c = "{"  -> LET j == SkipWs(s, i + 1)
                          IN  IF At(s, j, "}") THEN JsonOk(PyDict(<<>>), j + 1)
                              ELSE ScanObject(s, j, <<>>)
           [] c = "["  -> LET j == SkipWs(s, i + 1)
                          IN  IF At(s, j, "]") THEN JsonOk(PyList(<<>>), j + 1)
                              ELSE ScanArray(s, j, <<>>)
           [] c = "n" /\ StartsWith(s, i, "null")  -> JsonOk(PyNone, i + 4)
           [] c = "t" /\ StartsWith(s, i, "true")  -> JsonOk(PyBool("True"), i + 4)
           [] c = "f" /\ StartsWith(s, i, "false") -> JsonOk(PyBool("False"), i + 5)
           [] c = "-" \/ IsDigit(c) -> ScanNumber(s, i)
           [] OTHER -> JsonFail

\* JSONObject: i is the position of the next member's key
ScanObject(s, i, acc) ==
    IF ~At(s, i, "\"") THEN JsonFail
    ELSE LET key == ScanString(s, i + 1, "") IN
         IF ~key.ok THEN JsonFail
         ELSE LET colon == SkipWs(s, key.next) IN
              IF ~At(s, colon, ":") THEN JsonFail
              ELSE LET val == ScanOnce(s, SkipWs(s, colon + 1)) IN
                   IF ~val.ok THEN JsonFail
                   ELSE LET e    == SkipWs(s, val.next)
                            acc2 == Append(acc, [k |-> key.val.s, v |-> val.val])
                        IN  IF At(s, e, "}") THEN JsonOk(PyDict(acc2), e + 1)
                            ELSE IF At(s, e, ",") THEN ScanObject(s, SkipWs(s, e + 1), acc2)
                            ELSE JsonFail

\* JSONArray: i is the position of the next element
ScanArray(s, i, acc) ==
    LET val == ScanOnce(s, i) IN
    IF ~val.ok THEN JsonFail
    ELSE LET e    == SkipWs(s, val.next)
             acc2 == Append(acc, val.val)
         IN  IF At(s, e, "]") THEN JsonOk(PyList(acc2), e + 1)
             ELSE IF At(s, e, ",") THEN ScanArray(s, SkipWs(s, e + 1), acc2)
             ELSE JsonFail

\* json.loads(s): one value between optional whitespace, nothing after it
JsonLoads(s) ==
    LET r == ScanOnce(s, SkipWs(s, 1))
    IN  IF r.ok /\ SkipWs(s, r.next) = Len(s) + 1 THEN r ELSE JsonFail

-----------------------------------------------------------------------------
(* Evidence formatting *)

\* The body of "for i, ev in enumerate(evidence_list)" up to the f-string:
\* the content of one item, or raised when the item makes the body raise
\* (ev_json.get on a decoded value that is not a dict is an AttributeError,
\* which "except json.JSONDecodeError" does not catch).
Content(ev) ==
    IF ev.t = "str" THEN
        LET ev_json == JsonLoads(ev.s) IN
        IF ~ev_json.ok THEN [raised |-> FALSE, content |-> ev]
        ELSE IF ev_json.val.t = "dict"
             THEN [raised |-> FALSE, content |-> DictGet(ev_json.val, "contents", ev)]
             ELSE [raised |-> TRUE]
    ELSE IF ev.t = "dict" THEN
        [raised |-> FALSE,
         content |-> DictGet(ev, "contents", DictGet(ev, "text", PyStrVal(PyStr(ev))))]
    ELSE [raised |-> FALSE, content |-> PyStrVal("")]

\* evidence_text after the items evs, numbered from n + 1, were appended to text;
\* raised when one of them raises
RECURSIVE FormatFrom(_, _, _)
FormatFrom(text, evs, n) ==
    IF evs = <<>> THEN [raised |-> FALSE, text |-> text]
    ELSE LET c == Content(Head(evs)) IN
         IF c.raised THEN [raised |-> TRUE]
         ELSE FormatFrom(text \o "[Document " \o IntToStr(n + 1) \o "] "
                              \o PyStr(c.content) \o "\n",
                         Tail(evs), n + 1)

\* the whole evidence loop of synthesize
FormatEvidenceText(evs) == FormatFrom("\n Evidence - ", evs, 0)

-----------------------------------------------------------------------------
(* The tally *)

\* mutant of CounterOf: a vote that repeats the vote just before it is not
\* counted
RECURSIVE CounterOf_SkipsRepeats(_)
CounterOf_SkipsRepeats(vs) ==
    IF vs = <<>> THEN <<>>
    ELSE LET rest == CounterOf_SkipsRepeats(SubSeq(vs, 1, Len(vs) - 1))
             v    == vs[Len(vs)]
         IN  IF Len(vs) > 1 /\ vs[Len(vs) - 1] = v THEN rest
             ELSE IF \E i \in 1..Len(rest) : rest[i].k = v
             THEN [i \in 1..Len(rest) |->
                     IF rest[i].k = v THEN [k |-> v, n |-> rest[i].n + 1] ELSE rest[i]]
             ELSE Append(rest, [k |-> v, n |-> 1])

\* Counter(votes): the keys in order of first occurrence, each with its count
RECURSIVE CounterOf(_)
CounterOf(vs) ==
    IF vs = <<>> THEN <<>>
    ELSE LET rest == CounterOf(SubSeq(vs, 1, Len(vs) - 1))
             v    == vs[Len(vs)]
         IN  IF \E i \in 1..Len(rest) : rest[i].k = v
             THEN [i \in 1..Len(rest) |->
                     IF rest[i].k = v THEN [k |-> v, n |-> rest[i].n + 1] ELSE rest[i]]
             ELSE Append(rest, [k |-> v, n |-> 1])

\* mutant of MostCommon1: the last of several items with the largest count
MostCommon1_Last(vote_counts) ==
    LET w == CHOOSE i \in 1..Len(vote_counts) :
                /\ \A j \in 1..Len(vote_counts) : vote_counts[j].n <= vote_counts[i].n
                /\ \A j \in (i + 1)..Len(vote_counts) : vote_counts[j].n < vote_counts[i].n
    IN  vote_counts[w]

\* vote_counts.most_common(1)[0]: max(items, key=count), which keeps the first
\* of several items with the largest count
MostCommon1(vote_counts) ==
    LET w == CHOOSE i \in 1..Len(vote_counts) :
                /\ \A j \in 1..Len(vote_counts) : vote_counts[j].n <= vote_counts[i].n
                /\ \A j \in 1..(i - 1) : vote_counts[j].n < vote_counts[i].n
    IN  vote_counts[w]

\* mutant of Round2: truncation to two decimals
Round2_Truncate(a, b) == (100 * a) \div b

\* round(a / b, 2), as a number of hundredths.  a / b lies halfway between two
\* hundredths only if 8 divides b; a / b is then an exact float and round
\* takes the even neighbour.
Round2(a, b) ==
    LET q == (100 * a) \div b
        r == (100 * a) % b
    IN  IF 2 * r < b THEN q
        ELSE IF 2 * r > b THEN q + 1
        ELSE IF q % 2 = 0 THEN q ELSE q + 1

\* the mapping synthesize returns; confidence is held in hundredths
Verdict(vs, ls) ==
    IF vs = <<>>
    THEN [final_verdict |-> NoneVal, confidence |-> 0,
          vote_breakdown |-> <<>>, juror_deliberations |-> ls]
    ELSE LET vote_counts == CounterOf(vs)
             top         == MostCommon1(vote_counts)
         IN  [final_verdict |-> top.k, confidence |-> Round2(top.n, Len(vs)),
              vote_breakdown |-> vote_counts, juror_deliberations |-> ls]

\* lines 111-146: votes and logs after the deliberation loop has processed
\* the juror outcomes cs in order (an outcome that raised leaves both alone)
RECURSIVE Deliberate(_, _)
Deliberate(cs, ch) ==
    IF cs = <<>> THEN [votes |-> <<>>, logs |-> <<>>]
    ELSE LET before     == Deliberate(SubSeq(cs, 1, Len(cs) - 1), ch)
             c          == cs[Len(cs)]
             clean_vote == CleanVote(c.vote, ch)
         IN  IF c.raised THEN before
             ELSE [votes |-> IF Truthy(clean_vote) THEN Append(before.votes, clean_vote)
                             ELSE before.votes,
                   logs  |-> Append(before.logs, [persona |-> c.persona, vote |-> clean_vote,
                                                  reasoning |-> c.reasoning])]

\* lines 111-166: what synthesize returns when its jurors are processed in the
\* order of cs
Synthesized(cs, ch) ==
    LET after == Deliberate(cs, ch) IN Verdict(after.votes, after.logs)

-----------------------------------------------------------------------------
(* AdvocateAgent *)

\* os.path.join(directory, name)
PathJoin(directory, name) == directory \o "/" \o name

\* lines 59-68: self.bm25_searcher after the BM25 block.  opens tells whether
\* LuceneSearcher(bm25_index_path) returns (TRUE) or raises (FALSE).
\* The result is the searcher (TRUE or FALSE for None) and the calls made.
InitBm25(lucene, path, files, opens) ==
    IF lucene /\ path # NoneVal /\ path # "" /\ path \in files
    THEN [searcher |-> opens, log |-> << [call |-> "LuceneSearcher", ok |-> opens] >>]
    ELSE [searcher |-> FALSE, log |-> <<>>]

\* lines 70-86: self.rag_indexer after the FAISS block.  ctor tells whether
\* RAGIndexer(model_name=...) returns, loads whether load_index returns.
\* The indexer is assigned before the files are looked for, and neither the
\* else branch nor the except clause resets it.
InitFaiss(directory, files, ctor, loads) ==
    IF directory # NoneVal /\ directory # "" /\ directory \in files
    THEN IF ~ctor
         THEN [indexer |-> FALSE, log |-> << [call |-> "RAGIndexer", ok |-> FALSE] >>]
         ELSE LET metadata_path == PathJoin(directory, "metadata.pkl")
                  index_path    == PathJoin(directory, "faiss_index.bin")
              IN  IF index_path \in files /\ metadata_path \in files
                  THEN [indexer |-> TRUE,
                        log |-> << [call |-> "RAGIndexer", ok |-> TRUE],
                                   [call |-> "load_index", ok |-> loads] >>]
                  ELSE [indexer |-> TRUE, log |-> << [call |-> "RAGIndexer", ok |-> TRUE] >>]
    ELSE [indexer |-> FALSE, log |-> <<>>]

\* lines 88-93: self.tools
ToolList(searcher, indexer) ==
    (IF searcher THEN << "_bm25_tool" >> ELSE <<>>)
        \o (IF indexer THEN << "_dense_tool" >> ELSE <<>>)

\* str.split('\n')
RECURSIVE SplitFrom(_, _)
SplitFrom(s, piece) ==
    IF s = "" THEN << piece >>
    ELSE IF Head(s) = "\n" THEN << piece >> \o SplitFrom(Tail(s), "")
    ELSE SplitFrom(Tail(s), piece \o Head(s))

SplitLines(s) == SplitFrom(s, "")

NonBlank(p) == Strip(p) # ""

\* lines 161-169: the passages of prediction.evidence
Passages(evidence) ==
    IF evidence.t = "str"
    THEN LET kept == SelectSeq(SplitLines(evidence.s), NonBlank)
         IN  [i \in 1..Len(kept) |-> PyStrVal(kept[i])]
    ELSE IF evidence.t = "list" THEN evidence.items
    ELSE << PyStrVal(PyStr(evidence)) >>

\* mutant of SliceTo: one item too many
SliceTo_OffByOne(xs, n) == SubSeq(xs, 1, Min(n + 1, Len(xs)))

\* passages[:k]
SliceTo(xs, n) ==
    IF n >= 0 THEN SubSeq(xs, 1, Min(n, Len(xs)))
    ELSE SubSeq(xs, 1, IF Len(xs) + n > 0 THEN Len(xs) + n ELSE 0)

\* line 171: every passage as an item; score is the float 1.0
EvidenceItemsOf(passages) ==
    [i \in 1..Len(passages) |-> [text |-> passages[i], source |-> "dspy_react", score |-> 1]]

\* lines 147-175: what retrieve returns.  agent is self.react_agent and
\* outcome what the ReAct agent does when called: it raises, or it returns a
\* prediction with the evidence field.
RetrieveResult(agent, outcome, n) ==
    IF ~agent THEN <<>>
    ELSE IF outcome.raised THEN <<>>
    ELSE EvidenceItemsOf(SliceTo(Passages(outcome.evidence), n))

NotInvoked == [raised |-> FALSE, invoked |-> FALSE]
Raises == [raised |-> TRUE, invoked |-> TRUE]
Returns(evidence) == [raised |-> FALSE, invoked |-> TRUE, evidence |-> evidence]

-----------------------------------------------------------------------------
(* Inputs *)

MaxEvidence == 2      \* longest evidence list of the evidence specification
MaxJurors   == 2      \* largest num_arbiters of the vote-extraction specification
MaxK        == 3      \* largest k of retrieve
MaxOrder    == 3      \* largest num_arbiters of the processing-order specification

NoResult == [final_verdict |-> "<no result>"]

ChoicesABCD == << <<"A", "Involuntary manslaughter">>, <<"B", "Voluntary manslaughter">>,
                  <<"C", "Murder">>, <<"D", "None of the above">> >>

\* choices mappings with single-letter keys
ChoiceMaps ==
    { ChoicesABCD,
      << <<"A", "Yes">>, <<"B", "No">> >>,
      << <<"a", "yes">>, <<"b", "no">> >>,
      << <<"T", "True">>, <<"F", "False">> >> }

JsonFoo    == PyStrVal("{\"contents\": \"foo\"}")
MapTextFoo == PyDict(<< [k |-> "text", v |-> PyStrVal("foo")] >>)

\* three evidence passages, as the dataset and the advocate supply them
Passages3 ==
    << PyStrVal("{\n  \"id\" : \"caselaw_1\",\n  \"contents\" : \"The victim died.\"\n}"),
       JsonFoo,
       PyDict(<< [k |-> "text", v |-> PyStrVal("stare decisis")],
                 [k |-> "source", v |-> PyStrVal("dspy_react")],
                 [k |-> "score", v |-> PyIntVal("1")] >>) >>

EvidenceItems ==
    { JsonFoo,
      MapTextFoo,
      PyDict(<< [k |-> "text", v |-> PyStrVal("bar")], [k |-> "contents", v |-> PyStrVal("foo")] >>),
      PyDict(<< [k |-> "id", v |-> PyStrVal("x")] >>),
      PyStrVal("plain text"),
      PyStrVal(""),
      PyStrVal("{\"id\": \"x\"}"),
      PyStrVal("{\"contents\": \"foo\""),
      PyStrVal("{\"contents\": 5, \"text\": \"t\"}"),
      PyStrVal(" {\n \"id\" : \"c\",\n \"contents\" : \"He said \\\"no\\\".\"\n}\n"),
      PyStrVal("42"),
      PyStrVal("[\"foo\"]"),
      PyStrVal("\"foo\""),
      PyStrVal("null"),
      PyNone }

EvidenceLists == UNION { [1..n -> EvidenceItems] : n \in 0..MaxEvidence }

\* raw vote texts of the reasoning collaborator
RawVotes == { "B", "A", "Not sure" }

RawVotesWide ==
    { "  b) because...\n", "I choose option D.", "Not sure", "B", "d", "", "\tTrue" }

\* raw votes of the processing-order specification: two keys and no key
OrderVotes == { "A", "b", "?" }

Reasonings == { "chain of thought" }

Bm25Path == "indexes/bm25"
FaissDir == "indexes/faiss"

\* the file systems: a file of the index directory exists only inside it
FileSystems ==
    { files \in SUBSET { Bm25Path, FaissDir, PathJoin(FaissDir, "faiss_index.bin"),
                         PathJoin(FaissDir, "metadata.pkl") } :
        (files \cap { PathJoin(FaissDir, "faiss_index.bin"),
                      PathJoin(FaissDir, "metadata.pkl") } # {}) => FaissDir \in files }

\* evidence the ReAct agent returns as one text block
BlockFive  == "first\nsecond\nthird\nfourth\nfifth"
BlockGaps  == "one\n\n  \t\ntwo\nthree\n"
BlockSpace == "  indented passage  "
BlockCrLf  == "- p1\r\n- p2\r\n"
EvidenceBlocks == { BlockFive, BlockGaps, BlockSpace, BlockCrLf, "", "\n \n" }

\* what the ReAct agent does when retrieve calls it
Predictions ==
    { Raises }
    \cup { Returns(PyStrVal(b)) : b \in EvidenceBlocks }
    \cup { Returns(PyList(<< PyStrVal("p1"), PyStrVal(""), PyStrVal("p3") >>)),
           Returns(PyNone) }

-----------------------------------------------------------------------------
(* synthesize, step by step *)

InitWith(chs, evs, ns) ==
    /\ choices \in chs
    /\ evidence_list \in evs
    /\ num_arbiters \in ns
    /\ pc = "format"
    /\ evidence_text = ""
    /\ selected_names = <<>>
    /\ idx = 0
    /\ votes = <<>>
    /\ logs = <<>>
    /\ calls = <<>>
    /\ result = NoResult

\* lines 83-97: the evidence loop; an item that raises ends the call
FormatEvidence ==
    /\ pc = "format"
    /\ LET r == FormatEvidenceText(evidence_list) IN
       IF r.raised
       THEN /\ pc' = "raised"
            /\ UNCHANGED evidence_text
       ELSE /\ pc' = "select"
            /\ evidence_text' = r.text
    /\ UNCHANGED <<choices, evidence_list, num_arbiters, selected_names, idx,
                   votes, logs, calls, result>>
    /\ UNCHANGED advocateVars

\* lines 102-109: k = min(num_arbiters, len(available_keys)); random.sample.
\* num_arbiters is drawn from the naturals (random.sample rejects a negative k).
SelectJury ==
    /\ pc = "select"
    /\ \E s \in Sample(LEGAL_PERSONAS, Min(num_arbiters, Len(LEGAL_PERSONAS))) :
          selected_names' = s
    /\ votes' = <<>>
    /\ logs' = <<>>
    /\ pc' = "loop"
    /\ UNCHANGED <<choices, evidence_list, num_arbiters, evidence_text, idx, calls, result>>
    /\ UNCHANGED advocateVars

\* mutant of JurorVotes: the ballot is recorded only when a vote was extracted
JurorVotes_LogOnlyValid(vote, reasoning) ==
    /\ pc = "loop"
    /\ idx < Len(selected_names)
    /\ LET name       == selected_names[idx + 1]
           clean_vote == CleanVote(vote, choices)
       IN  /\ calls' = Append(calls, [persona |-> name, raised |-> FALSE, vote |-> vote,
                                      reasoning |-> reasoning])
           /\ votes' = IF Truthy(clean_vote) THEN Append(votes, clean_vote) ELSE votes
           /\ logs' = IF Truthy(clean_vote)
                      THEN Append(logs, [persona |-> name, vote |-> clean_vote,
                                         reasoning |-> reasoning])
                      ELSE logs
    /\ idx' = idx + 1
    /\ UNCHANGED <<choices, evidence_list, num_arbiters, pc, evidence_text,
                   selected_names, result>>
    /\ UNCHANGED advocateVars

\* lines 115-143: one iteration of the deliberation loop in which the
\* predictor returns a prediction with the raw vote text vote (a prediction
\* carries both output fields of ArbiterDecision, vote and reasoning)
JurorVotes(vote, reasoning) ==
    /\ pc = "loop"
    /\ idx < Len(selected_names)
    /\ LET name       == selected_names[idx + 1]
           clean_vote == CleanVote(vote, choices)
       IN  /\ calls' = Append(calls, [persona |-> name, raised |-> FALSE, vote |-> vote,
                                      reasoning |-> reasoning])
           /\ votes' = IF Truthy(clean_vote) THEN Append(votes, clean_vote) ELSE votes
           /\ logs' = Append(logs, [persona |-> name, vote |-> clean_vote,
                                    reasoning |-> reasoning])
    /\ idx' = idx + 1
    /\ UNCHANGED <<choices, evidence_list, num_arbiters, pc, evidence_text,
                   selected_names, result>>
    /\ UNCHANGED advocateVars

\* mutant of JurorFails: the failure is recorded as a ballot with no vote
JurorFails_LogsBallot ==
    /\ pc = "loop"
    /\ idx < Len(selected_names)
    /\ calls' = Append(calls, [persona |-> selected_names[idx + 1], raised |-> TRUE,
                               vote |-> "", reasoning |-> ""])
    /\ logs' = Append(logs, [persona |-> selected_names[idx + 1], vote |-> NoneVal,
                             reasoning |-> ""])
    /\ idx' = idx + 1
    /\ UNCHANGED <<choices, evidence_list, num_arbiters, pc, evidence_text,
                   selected_names, votes, result>>
    /\ UNCHANGED advocateVars

\* mutant of JurorFails: the failure is not caught and ends the call
JurorFails_Propagates ==
    /\ pc = "loop"
    /\ idx < Len(selected_names)
    /\ calls' = Append(calls, [persona |-> selected_names[idx + 1], raised |-> TRUE,
                               vote |-> "", reasoning |-> ""])
    /\ pc' = "raised"
    /\ UNCHANGED <<choices, evidence_list, num_arbiters, evidence_text,
                   selected_names, idx, votes, logs, result>>
    /\ UNCHANGED advocateVars

\* lines 117-124, 145-146: one iteration in which the predictor raises (or
\* returns a vote that is no string, so that pred.vote.strip() raises): the
\* except clause prints and the loop goes on
JurorFails ==
    /\ pc = "loop"
    /\ idx < Len(selected_names)
    /\ calls' = Append(calls, [persona |-> selected_names[idx + 1], raised |-> TRUE,
                               vote |-> "", reasoning |-> ""])
    /\ idx' = idx + 1
    /\ UNCHANGED <<choices, evidence_list, num_arbiters, pc, evidence_text,
                   selected_names, votes, logs, result>>
    /\ UNCHANGED advocateVars

\* lines 148-166: the loop is over; tally and return
Return ==
    /\ pc = "loop"
    /\ idx = Len(selected_names)
    /\ result' = Verdict(votes, logs)
    /\ pc' = "done"
    /\ UNCHANGED <<choices, evidence_list, num_arbiters, evidence_text,
                   selected_names, idx, votes, logs, calls>>
    /\ UNCHANGED advocateVars

\* AdvocateAgent before its construction, when only the jury runs
AdvocateIdle ==
    /\ dspy = TRUE
    /\ LuceneSearcher = FALSE
    /\ fs = {}
    /\ bm25_index_path = NoneVal
    /\ faiss_index_dir = NoneVal
    /\ agent_pc = "new"
    /\ bm25_searcher = FALSE
    /\ rag_indexer = FALSE
    /\ tools = <<>>
    /\ react_agent = FALSE
    /\ events = <<>>
    /\ retrieve_k = 0
    /\ prediction = NotInvoked
    /\ retrieved = <<>>

Step(raw) ==
    \/ FormatEvidence
    \/ SelectJury
    \/ \E vote \in raw, reasoning \in Reasonings : JurorVotes(vote, reasoning)
    \/ JurorFails
    \/ Return

\* the tally: every jury the registry allows, against the choices A-D
Init == InitWith({ChoicesABCD}, {Passages3}, 0..Len(LEGAL_PERSONAS)) /\ AdvocateIdle
Next == Step(RawVotes)
Spec == Init /\ [][Next]_vars

\* jury selection: requested sizes beyond the registry's
InitJury == InitWith({ChoicesABCD}, {Passages3}, 0..(Len(LEGAL_PERSONAS) + 2)) /\ AdvocateIdle
NextJury == Step({"B"})
SpecJury == InitJury /\ [][NextJury]_vars

\* vote extraction: several choices mappings and raw vote texts, small juries
InitVotes == InitWith(ChoiceMaps, {Passages3}, 0..MaxJurors) /\ AdvocateIdle
NextVotes == Step(RawVotesWide)
SpecVotes == InitVotes /\ [][NextVotes]_vars

\* evidence formatting: every evidence list up to MaxEvidence items
InitEvidence == InitWith({ChoicesABCD}, EvidenceLists, {0, 1}) /\ AdvocateIdle
NextEvidence == Step({"B"})
SpecEvidence == InitEvidence /\ [][NextEvidence]_vars

\* processing order: small juries, every mix of votes and failures
InitOrder == InitWith({ChoicesABCD}, {Passages3}, 0..MaxOrder) /\ AdvocateIdle
NextOrder == Step(OrderVotes)
SpecOrder == InitOrder /\ [][NextOrder]_vars

-----------------------------------------------------------------------------
(* AdvocateAgent, step by step *)

\* advocate.py lines 38-99: __init__.  opens, ctor and loads are the outcomes
\* of LuceneSearcher(...), RAGIndexer(...) and load_index(...) where called.
Construct(opens, ctor, loads) ==
    /\ agent_pc = "new"
    /\ LET bm25  == InitBm25(LuceneSearcher, bm25_index_path, fs, opens)
           faiss == InitFaiss(faiss_index_dir, fs, ctor, loads)
       IN  /\ bm25_searcher' = bm25.searcher
           /\ rag_indexer' = faiss.indexer
           /\ tools' = ToolList(bm25.searcher, faiss.indexer)
           /\ events' = bm25.log \o faiss.log
    /\ react_agent' = dspy
    /\ agent_pc' = "built"
    /\ UNCHANGED <<dspy, LuceneSearcher, fs, bm25_index_path, faiss_index_dir,
                   retrieve_k, prediction, retrieved>>
    /\ UNCHANGED juryVars

\* advocate.py lines 147-175: retrieve(hypothesis, k) with k = n; outcome is
\* what the ReAct agent does if it is called
Retrieve(n, outcome) ==
    /\ agent_pc = "built"
    /\ retrieve_k' = n
    /\ prediction' = IF react_agent THEN outcome ELSE NotInvoked
    /\ retrieved' = RetrieveResult(react_agent, outcome, n)
    /\ agent_pc' = "retrieved"
    /\ UNCHANGED <<dspy, LuceneSearcher, fs, bm25_index_path, faiss_index_dir,
                   bm25_searcher, rag_indexer, tools, react_agent, events>>
    /\ UNCHANGED juryVars

\* construction in every environment, then one retrieve
InitAdvocate ==
    /\ InitWith({ChoicesABCD}, {Passages3}, {0})
    /\ dspy \in BOOLEAN
    /\ LuceneSearcher \in BOOLEAN
    /\ fs \in FileSystems
    /\ bm25_index_path \in {NoneVal, Bm25Path}
    /\ faiss_index_dir \in {NoneVal, FaissDir}
    /\ agent_pc = "new"
    /\ bm25_searcher = FALSE
    /\ rag_indexer = FALSE
    /\ tools = <<>>
    /\ react_agent = FALSE
    /\ events = <<>>
    /\ retrieve_k = 0
    /\ prediction = NotInvoked
    /\ retrieved = <<>>
NextAdvocate ==
    \/ \E opens, ctor, loads \in BOOLEAN : Construct(opens, ctor, loads)
    \/ \E n \in (-1)..MaxK, outcome \in Predictions : Retrieve(n, outcome)
SpecAdvocate == InitAdvocate /\ [][NextAdvocate]_vars

-----------------------------------------------------------------------------
(* Properties *)

Keys == ChoiceKeys(choices)
HasResult == result # NoResult

\* the invocations that returned a prediction, in order
Returned == SelectSeq(calls, LAMBDA c : ~c.raised)

\* the ballot recorded for invocation i, which returned
BallotOf(i) == logs[Cardinality({ j \in 1..i : ~calls[j].raised })]

\* positions of the ballots that carry a vote
Cast(ballots) == { i \in DOMAIN ballots : ballots[i].vote # NoneVal }

RECURSIVE SumCounts(_)
SumCounts(vb) == IF vb = <<>> THEN 0 ELSE Head(vb).n + SumCounts(Tail(vb))

MaxCount(vb) == CHOOSE m \in { vb[i].n : i \in DOMAIN vb } : \A i \in DOMAIN vb : vb[i].n <= m

\* the count of key in a vote_breakdown, 0 when the key is absent
CountOf(vb, key) ==
    IF \E i \in DOMAIN vb : vb[i].k = key
    THEN vb[CHOOSE i \in DOMAIN vb : vb[i].k = key].n
    ELSE 0

\* position of the first ballot voting key
FirstVote(ballots, key) ==
    CHOOSE i \in DOMAIN ballots :
        /\ ballots[i].vote = key
        /\ \A j \in 1..(i - 1) : ballots[j].vote # key

\* C1: whatever the choices mapping, the evidence and the juror outcomes, the
\* final_verdict of a returned result is None or a key of choices, and so is
\* the vote of every record of juror_deliberations.
C1_VerdictWithinChoices ==
    HasResult =>
        /\ result.final_verdict \in Keys \cup {NoneVal}
        /\ \A i \in DOMAIN result.juror_deliberations :
              result.juror_deliberations[i].vote \in Keys \cup {NoneVal}

\* C1 witness: a result whose verdict is a key, with one ballot that carries
\* no vote although its raw text has letters, under a two-key mapping
C1_Witness ==
    /\ HasResult
    /\ Keys = {"T", "F"}
    /\ result.final_verdict = "T"
    /\ \E i \in DOMAIN calls : ~calls[i].raised /\ calls[i].vote = "  b) because...\n"
    /\ \E i \in DOMAIN result.juror_deliberations :
          result.juror_deliberations[i].vote = NoneVal

\* C2: with choices keyed A, B, C, D the raw vote "  b) because...\n" is
\* recorded as B, "I choose option D." as D, and "Not sure" with no vote; only
\* ballots that carry a vote are tallied.
C2_ExtractionExamples ==
    choices = ChoicesABCD =>
        /\ \A i \in DOMAIN calls :
              ~calls[i].raised =>
                 /\ calls[i].vote = "  b) because...\n" => BallotOf(i).vote = "B"
                 /\ calls[i].vote = "I choose option D." => BallotOf(i).vote = "D"
                 /\ calls[i].vote = "Not sure" => BallotOf(i).vote = NoneVal
        /\ Len(votes) = Cardinality(Cast(logs))

\* the two examples of C2 that the code meets
C2_MetExamples ==
    choices = ChoicesABCD =>
        /\ \A i \in DOMAIN calls :
              ~calls[i].raised =>
                 /\ calls[i].vote = "  b) because...\n" => BallotOf(i).vote = "B"
                 /\ calls[i].vote = "Not sure" => BallotOf(i).vote = NoneVal
        /\ Len(votes) = Cardinality(Cast(logs))

\* what the code records for the third example of C2
C2_OptionDIsRecordedAsC ==
    choices = ChoicesABCD =>
        \A i \in DOMAIN calls :
           (~calls[i].raised /\ calls[i].vote = "I choose option D.") => BallotOf(i).vote = "C"

\* C3: in a result with at least one vote, vote_breakdown has one entry per
\* key, each with a count of at least 1, its counts sum to the number of
\* ballots that carry a vote, and confidence is max / sum of the counts
\* rounded to two decimals, above 0 and at most 1.
C3_BreakdownAndConfidence ==
    (HasResult /\ Cast(result.juror_deliberations) # {}) =>
        LET vb  == result.vote_breakdown
            sum == SumCounts(vb)
            max == MaxCount(vb)
            d   == result.confidence * sum - 100 * max
        IN  /\ \A i, j \in DOMAIN vb : vb[i].k = vb[j].k => i = j
            /\ \A i \in DOMAIN vb : vb[i].n >= 1
            /\ sum = Cardinality(Cast(result.juror_deliberations))
            /\ 2 * d <= sum /\ -2 * d <= sum
            /\ 0 < result.confidence /\ result.confidence <= 100

\* C3 witness: five ballots, one abstention, four votes split 3 to 1 over
\* two keys: confidence 0.75
C3_Witness ==
    /\ HasResult
    /\ Len(result.juror_deliberations) = 5
    /\ Cardinality(Cast(result.juror_deliberations)) = 4
    /\ Len(result.vote_breakdown) = 2
    /\ result.confidence = 75

\* C4: the final verdict has a maximal count; among keys tied for the
\* maximum it is the one whose first vote is earliest in selection order; and
\* the votes B, B, A give verdict B, confidence 0.67 and breakdown {B: 2, A: 1}.
C4_MajorityAndTieBreak ==
    (HasResult /\ Cast(result.juror_deliberations) # {}) =>
        LET vb == result.vote_breakdown
            jd == result.juror_deliberations
            w  == result.final_verdict
        IN  /\ \A key \in Keys : CountOf(vb, key) <= CountOf(vb, w)
            /\ \A key \in Keys \ {w} :
                  CountOf(vb, key) = CountOf(vb, w) => FirstVote(jd, w) < FirstVote(jd, key)
            /\ (Len(jd) = 3 /\ jd[1].vote = "B" /\ jd[2].vote = "B" /\ jd[3].vote = "A") =>
                  /\ w = "B"
                  /\ result.confidence = 67
                  /\ vb = << [k |-> "B", n |-> 2], [k |-> "A", n |-> 1] >>

\* C4 witness: B and A tie with two votes each, B voted first and wins
C4_Witness ==
    /\ HasResult
    /\ result.final_verdict = "B"
    /\ CountOf(result.vote_breakdown, "A") = 2
    /\ CountOf(result.vote_breakdown, "B") = 2
    /\ result.juror_deliberations[1].vote = "B"
    /\ result.juror_deliberations[Len(result.juror_deliberations)].vote = "A"

\* C5: when no juror's upper-cased vote text has a character that is a key of
\* choices (also when no juror was selected), the result has no verdict,
\* confidence 0.0 and an empty breakdown, and juror_deliberations holds, in
\* order, one record with the reasoning and no vote for every invocation that
\* returned.
C5_NoVotesVerdict ==
    (pc = "done" /\ \A i \in DOMAIN calls :
                       \A p \in 1..Len(calls[i].vote) :
                          UpperChar(Char(calls[i].vote, p)) \notin Keys) =>
        /\ result.final_verdict = NoneVal
        /\ result.confidence = 0
        /\ result.vote_breakdown = <<>>
        /\ Len(result.juror_deliberations) = Len(Returned)
        /\ \A i \in DOMAIN Returned :
              result.juror_deliberations[i] =
                 [persona |-> Returned[i].persona, vote |-> NoneVal,
                  reasoning |-> Returned[i].reasoning]

\* C5 witness: three jurors, two abstain with their reasoning, one fails
C5_Witness ==
    /\ pc = "done"
    /\ Len(calls) = 3
    /\ Len(Returned) = 2
    /\ \A i \in DOMAIN Returned : Returned[i].vote = "Not sure"
    /\ result.final_verdict = NoneVal
    /\ Len(result.juror_deliberations) = 2

\* C6: the length of juror_deliberations equals the number of personas
\* invoked in the call, the personas whose invocation failed included.
C6_OneBallotPerInvocation ==
    HasResult => Len(result.juror_deliberations) = Len(calls)

\* C6 as amended: the length of juror_deliberations equals the number of
\* invocations that returned; a persona whose invocation failed has no
\* record, and no selected persona has more than one.
C6_OneBallotPerReturnedInvocation ==
    HasResult =>
        LET jd == result.juror_deliberations
        IN  /\ Len(jd) = Len(Returned)
            /\ \A i \in DOMAIN jd : jd[i].persona = Returned[i].persona
            /\ \A i, j \in DOMAIN jd : jd[i].persona = jd[j].persona => i = j
            /\ \A i \in DOMAIN calls :
                  calls[i].raised => \A j \in DOMAIN jd : jd[j].persona # calls[i].persona

\* C6 witness: three personas invoked, one failure, two records
C6_Witness ==
    /\ HasResult
    /\ Len(calls) = 3
    /\ calls[2].raised
    /\ Len(result.juror_deliberations) = 2

\* C7: a call selects exactly min(num_arbiters, 5) persona names, all in the
\* registry and pairwise distinct, and invokes the collaborator exactly once
\* for each of them, in selection order.
C7_DistinctJurorsInvokedOnce ==
    /\ pc \in {"loop", "done"} =>
          /\ Len(selected_names) = (IF num_arbiters < 5 THEN num_arbiters ELSE 5)
          /\ \A i \in DOMAIN selected_names : selected_names[i] \in Range(LEGAL_PERSONAS)
          /\ \A i, j \in DOMAIN selected_names : selected_names[i] = selected_names[j] => i = j
    /\ Len(calls) <= Len(selected_names)
    /\ \A i \in DOMAIN calls : calls[i].persona = selected_names[i]
    /\ pc = "done" => Len(calls) = Len(selected_names)

\* C7 witness: seven arbiters requested, five personas invoked, one failed
C7_Witness ==
    /\ pc = "done"
    /\ num_arbiters = 7
    /\ Len(calls) = 5
    /\ calls[3].raised
    /\ ~calls[5].raised

\* C8: a failed invocation does not end the call: the persona gets no vote
\* and no record, the loop stays at a position from which the next persona
\* is invoked or the tally runs, every selected persona has been invoked when
\* the Verdict is returned, the votes of the others are tallied, and the
\* Verdict is the no-votes Verdict when every invocation failed.
C8_FailureIsContained ==
    (\E i \in DOMAIN calls : calls[i].raised) =>
        /\ pc \in {"loop", "done"}
        /\ pc = "loop" => idx = Len(calls) /\ idx <= Len(selected_names)
        /\ Len(votes) <= Len(Returned)
        /\ \A i \in DOMAIN calls :
              calls[i].raised => \A j \in DOMAIN logs : logs[j].persona # calls[i].persona
        /\ pc = "done" =>
              /\ Len(calls) = Len(selected_names)
              /\ \A key \in Keys :
                    CountOf(result.vote_breakdown, key) >=
                       Cardinality({ i \in DOMAIN calls : ~calls[i].raised /\ calls[i].vote = key })
              /\ (\A i \in DOMAIN calls : calls[i].raised) =>
                    result = [final_verdict |-> NoneVal, confidence |-> 0,
                              vote_breakdown |-> <<>>, juror_deliberations |-> <<>>]

\* C8 witness: the first of three invocations fails, the next two vote B and
\* the verdict is B with confidence 1.0
C8_Witness ==
    /\ pc = "done"
    /\ Len(calls) = 3
    /\ calls[1].raised
    /\ calls[2].vote = "B" /\ calls[3].vote = "B"
    /\ result.final_verdict = "B"
    /\ result.confidence = 100
    /\ result.vote_breakdown = << [k |-> "B", n |-> 2] >>

\* the content the extraction rule of C9 gives an evidence item
C9_Content(ev) ==
    IF ev.t = "str" THEN
        LET decoded == JsonLoads(ev.s) IN
        IF decoded.ok /\ decoded.val.t = "dict" /\ DictHas(decoded.val, "contents")
        THEN PyStr(DictLookup(decoded.val, "contents"))
        ELSE ev.s
    ELSE IF ev.t = "dict" THEN
        IF DictHas(ev, "contents") THEN PyStr(DictLookup(ev, "contents"))
        ELSE IF DictHas(ev, "text") THEN PyStr(DictLookup(ev, "text"))
        ELSE PyStr(ev)
    ELSE ""

RECURSIVE C9_Segments(_, _)
C9_Segments(evs, n) ==
    IF evs = <<>> THEN ""
    ELSE "[Document " \o IntToStr(n) \o "] " \o C9_Content(Head(evs)) \o "\n"
         \o C9_Segments(Tail(evs), n + 1)

\* C9: once the evidence is formatted, every item i (from 1, in input order)
\* is the segment "[Document i] <content>", the content being: for a string
\* that JSON-decodes, its contents field if present, else the string; for a
\* string that does not decode, the string; for a mapping, contents, else
\* text, else its string conversion.  The string {"contents": "foo"} and the
\* mapping {"text": "foo"} both have the content foo.
C9_ContentExtraction ==
    /\ C9_Content(JsonFoo) = "foo"
    /\ C9_Content(MapTextFoo) = "foo"
    /\ pc # "format" =>
          /\ pc # "raised"
          /\ evidence_text = "\n Evidence - " \o C9_Segments(evidence_list, 1)

\* the part of C9 the code meets: the text of every call that gets past the
\* evidence loop
C9_MetWhenFormatted ==
    /\ pc \notin {"format", "raised"} =>
          evidence_text = "\n Evidence - " \o C9_Segments(evidence_list, 1)
    /\ (pc \notin {"format", "raised"} /\ evidence_list = <<JsonFoo, MapTextFoo>>) =>
          evidence_text = "\n Evidence - [Document 1] foo\n[Document 2] foo\n"

\* C10: no evidence item, string or mapping, makes synthesize raise.
C10_EvidenceNeverRaises ==
    pc # "raised"

\* the evidence lists that make synthesize raise are those with a string
\* item that decodes to a JSON value other than an object
C10_RaisesOnlyOnNonObjectJson ==
    (pc # "format") =>
        (pc = "raised" <=>
            \E i \in DOMAIN evidence_list :
                /\ evidence_list[i].t = "str"
                /\ JsonLoads(evidence_list[i].s).ok
                /\ JsonLoads(evidence_list[i].s).val.t # "dict")

\* C11: an agent constructed with no keyword index and no dense index has an
\* empty tool list, and its retrieve returns the empty sequence whatever the
\* reasoning collaborator does.
C11_NoIndexesRetrieveEmpty ==
    (agent_pc = "retrieved" /\ bm25_index_path = NoneVal /\ faiss_index_dir = NoneVal) =>
        /\ tools = <<>>
        /\ retrieved = <<>>

\* the part of C11 the code meets: no configured index, no tool; and nothing
\* is returned when the collaborator is missing or raises
C11_MetWithoutCollaborator ==
    /\ (agent_pc # "new" /\ bm25_index_path = NoneVal /\ faiss_index_dir = NoneVal) =>
          tools = <<>>
    /\ (agent_pc = "retrieved" /\ (~prediction.invoked \/ prediction.raised)) =>
          retrieved = <<>>

\* C12: after construction the dense tool is registered only if the index
\* directory exists, the index file and the metadata file both exist in it
\* and load_index succeeded; the keyword tool only if the keyword index path
\* exists and LuceneSearcher opened it.
C12_ToolsNeedLoadedIndexes ==
    agent_pc # "new" =>
        /\ "_dense_tool" \in Range(tools) =>
              /\ faiss_index_dir # NoneVal
              /\ faiss_index_dir \in fs
              /\ PathJoin(faiss_index_dir, "faiss_index.bin") \in fs
              /\ PathJoin(faiss_index_dir, "metadata.pkl") \in fs
              /\ [call |-> "load_index", ok |-> TRUE] \in Range(events)
        /\ "_bm25_tool" \in Range(tools) =>
              /\ bm25_index_path # NoneVal
              /\ bm25_index_path \in fs
              /\ [call |-> "LuceneSearcher", ok |-> TRUE] \in Range(events)

\* the part of C12 the code meets: the keyword tool, and what the dense tool
\* does depend on (the directory exists and RAGIndexer was constructed)
C12_MetForKeywordTool ==
    agent_pc # "new" =>
        /\ "_bm25_tool" \in Range(tools) <=>
              /\ LuceneSearcher
              /\ bm25_index_path # NoneVal
              /\ bm25_index_path \in fs
              /\ [call |-> "LuceneSearcher", ok |-> TRUE] \in Range(events)
        /\ "_dense_tool" \in Range(tools) <=>
              /\ faiss_index_dir # NoneVal
              /\ faiss_index_dir \in fs
              /\ [call |-> "RAGIndexer", ok |-> TRUE] \in Range(events)

\* the non-blank lines of each evidence block, in order
C13_Lines(block) ==
    CASE block = BlockFive  -> << "first", "second", "third", "fourth", "fifth" >>
      [] block = BlockGaps  -> << "one", "two", "three" >>
      [] block = BlockSpace -> << "  indented passage  " >>
      [] block = BlockCrLf  -> << "- p1\r", "- p2\r" >>
      [] block = ""         -> << >>
      [] block = "\n \n"    -> << >>

\* C13: for evidence returned as one text block and k >= 0, retrieve returns
\* the first k non-blank lines of the block in order (all of them if there
\* are fewer), each as an item with score 1.0 and the source tag dspy_react,
\* never more than k items; with no reasoning agent, or when the agent
\* raises, it returns the empty sequence.
C13_FirstKNonBlankLines ==
    agent_pc = "retrieved" =>
        /\ (prediction.invoked /\ ~prediction.raised /\ retrieve_k >= 0
               /\ prediction.evidence.t = "str") =>
              LET lines == C13_Lines(prediction.evidence.s)
              IN  /\ Len(retrieved) = (IF retrieve_k < Len(lines) THEN retrieve_k ELSE Len(lines))
                  /\ Len(retrieved) <= retrieve_k
                  /\ \A i \in DOMAIN retrieved :
                        retrieved[i] = [text |-> PyStrVal(lines[i]), source |-> "dspy_react",
                                        score |-> 1]
        /\ (~react_agent \/ prediction.raised) => retrieved = <<>>

\* C13 witness: a block of three passages between blank lines, k = 2: the
\* first two passages are returned
C13_Witness ==
    /\ agent_pc = "retrieved"
    /\ prediction = Returns(PyStrVal(BlockGaps))
    /\ retrieve_k = 2
    /\ Len(retrieved) = 2
    /\ retrieved[1].text = PyStrVal("one")
    /\ retrieved[2].text = PyStrVal("two")

\* the orders in which n jurors can be processed
Orders(n) == { f \in [1..n -> 1..n] : \A i, j \in 1..n : f[i] = f[j] => i = j }

\* the juror outcomes cs, processed in the order f
Reorder(cs, f) == [i \in 1..Len(cs) |-> cs[f[i]]]

\* a vote_breakdown as a mapping: two dicts are equal whatever the order of
\* their items
AsMapping(vb) == { vb[i] : i \in DOMAIN vb }

\* exactly one key of the vote_breakdown has the largest count
UniqueMax(vb) ==
    vb # <<>> /\ Cardinality({ i \in DOMAIN vb : vb[i].n = MaxCount(vb) }) = 1

\* C14: the result of a synthesize call is the result of processing its
\* juror outcomes in the order of the call, and processing the same personas
\* with the same outcomes in any other order gives the same vote_breakdown
\* (as a mapping) and the same confidence, and the same final_verdict
\* whenever exactly one key has the largest count.
C14_OrderInsensitive ==
    pc = "done" =>
        /\ result = Synthesized(calls, choices)
        /\ \A f \in Orders(Len(calls)) :
              LET other == Synthesized(Reorder(calls, f), choices)
              IN  /\ AsMapping(other.vote_breakdown) = AsMapping(result.vote_breakdown)
                  /\ other.confidence = result.confidence
                  /\ UniqueMax(result.vote_breakdown) =>
                        other.final_verdict = result.final_verdict

\* C14 witness: three jurors, two keys voted, one of them the single winner,
\* and an order of processing that lists the keys of the vote_breakdown the
\* other way round
C14_Witness ==
    /\ pc = "done"
    /\ Len(calls) = 3
    /\ Len(result.vote_breakdown) = 2
    /\ UniqueMax(result.vote_breakdown)
    /\ \E f \in Orders(Len(calls)) :
          Synthesized(Reorder(calls, f), choices).vote_breakdown # result.vote_breakdown

\* the exception of C14: two jurors tie, and the other order of processing
\* gives the other final_verdict
C14_TieDependsOnOrder ==
    /\ pc = "done"
    /\ Len(calls) = 2
    /\ ~UniqueMax(result.vote_breakdown)
    /\ \E f \in Orders(Len(calls)) :
          Synthesized(Reorder(calls, f), choices).final_verdict # result.final_verdict

=============================================================================
